---- MODULE Spec2Model ----
(***************************************************************************)
(* GDAXOrderBookScraper (gdax_order_book_scraper.py): the run loop, one    *)
(* polling iteration, the retry wrapper around the network call, and the   *)
(* CSV flush.  Time is an integer clock of seconds.                        *)
(***************************************************************************)
EXTENDS Integers, Sequences, FiniteSets, TLC

\* ---------------------------------------------------------------------
\* Program constants
\* ---------------------------------------------------------------------
MAX_RETRIES == 5
FREQUENCY == 60
SCRAPES_PER_CSV == 5
DEFAULT_OUTPUT_DIR == "data"

\* ---------------------------------------------------------------------
\* Bounds of the model
\* ---------------------------------------------------------------------
\* number of add_product calls before run
MaxProducts == 2
\* iterations of the run loop that are explored
MaxIter == 11
\* faults of a run: a network call that takes longer than FREQUENCY, a
\* response that is no usable order book (None, an error object, a book
\* with an entry of the wrong type), a fetch that meets connection errors
\* (however many of its calls fail)
MaxFaults == 1
\* seconds taken by an ordinary network call, and by a slow one
FastCall == 1
SlowCall == 61
\* the clock value at which the scraper is constructed and run
StartClock == 17

ProductNames == {"BTC-USD", "ETH-USD"}

ProdNum(p) == IF p = "BTC-USD" THEN 1 ELSE 2

\* ---------------------------------------------------------------------
\* Values of the exchange client
\* ---------------------------------------------------------------------
\* A level-2 entry is a JSON list [price, size, num-orders]; an entry of
\* another type (here a string) has no insert method.
ListEntry(price, size, count) == [kind |-> "list", f |-> <<price, size, count>>]
StrEntry == [kind |-> "str", f |-> <<>>]
NoneValue == [kind |-> "None", f |-> <<>>]

BookData(bids, asks) == [kind |-> "book", bids |-> bids, asks |-> asks]
NoneData == [kind |-> "None", bids |-> <<>>, asks |-> <<>>]
ErrorData == [kind |-> "error", bids |-> <<>>, asks |-> <<>>]

\* The book the exchange holds for product p at clock value t: its prices
\* and its depth change from one tick to the next.
BidEntry(p, t, j) == ListEntry(1000 * ProdNum(p) + 10 * (t \div FREQUENCY) + j, 50 + j, j)
AskEntry(p, t, j) == ListEntry(1000 * ProdNum(p) + 500 + 10 * (t \div FREQUENCY) + j, 70 + j, j)
NumBids(p, t) == 1 + ((t \div FREQUENCY) % 2)
NumAsks(p, t) == ((t \div FREQUENCY) + ProdNum(p)) % 3
ExchangeBook(p, t) ==
    BookData([j \in 1..NumBids(p, t) |-> BidEntry(p, t, j)],
             [j \in 1..NumAsks(p, t) |-> AskEntry(p, t, j)])
\* The same book with an entry of the wrong type in front of the bids' last entry
MalformedBook(p, t) ==
    LET b == ExchangeBook(p, t)
    IN  BookData(SubSeq(b.bids, 1, Len(b.bids) - 1) \o <<StrEntry>>
                    \o SubSeq(b.bids, Len(b.bids), Len(b.bids)),
                 b.asks)

GoodResponses(p, t) == {ExchangeBook(p, t)}
BadResponses(p, t) == {NoneData, ErrorData, MalformedBook(p, t)}

\* ---------------------------------------------------------------------
\* Python dict with insertion order: a sequence of [k, v] with unique keys
\* ---------------------------------------------------------------------
EmptyDict == <<>>
DictHas(d, k) == \E i \in 1..Len(d) : d[i].k = k
DictGet(d, k) == d[CHOOSE i \in 1..Len(d) : d[i].k = k].v
DictSet(d, k, v) ==
    IF DictHas(d, k)
    THEN [i \in 1..Len(d) |-> IF d[i].k = k THEN [k |-> k, v |-> v] ELSE d[i]]
    ELSE Append(d, [k |-> k, v |-> v])
DictKeys(d) == {d[i].k : i \in 1..Len(d)}

\* ---------------------------------------------------------------------
\* Conversions of current_time
\* ---------------------------------------------------------------------
\* str(current_time.timestamp()): the CSV file name
TimestampStr(t) == <<"timestamp", t>>
\* current_time.isoformat(' '): the Date column
IsoFormat(t) == <<"iso", t>>

\* os.path.join(os.path.join(csv_directory, product), csv_filename)
CsvPath(dir, product, t) == <<dir, product, TimestampStr(t)>>

\* ---------------------------------------------------------------------
\* prepare_order_book_row and the CSV writer
\* ---------------------------------------------------------------------
\* list.insert(0, x)
Insert0(row, x) == [kind |-> row.kind, f |-> <<x>> \o row.f]

\* prepare_order_book_row(row, order_type) with self.current_time = ct:
\* the order type, then the date, are inserted in front; a row without an
\* insert method raises AttributeError and None is returned.
prepare_order_book_row(row, order_type, ct) ==
    IF row.kind = "list"
    THEN Insert0(Insert0(row, order_type), IsoFormat(ct))
    ELSE NoneValue

\* the flags of the two order types exchanged
order_types_Swapped == << [key |-> "bids", flag |-> "a"], [key |-> "asks", flag |-> "b"] >>

\* order_types = {'bids': 'b', 'asks': 'a'}, in the dict's iteration order
order_types == << [key |-> "bids", flag |-> "b"], [key |-> "asks", flag |-> "a"] >>

\* order_book_data[product][order_type]
Orders(data, key) == IF key = "bids" THEN data.bids ELSE data.asks

\* The loop over the orders of one order type: each row is prepared and
\* handed to writer.writerow, which raises on None (not a sequence).
\* The result is the rows in the file so far and whether an error escaped.
RECURSIVE WriteOrders(_, _, _, _)
WriteOrders(orders, flag, ct, rows) ==
    IF orders = <<>>
    THEN [rows |-> rows, raised |-> FALSE]
    ELSE LET row == prepare_order_book_row(Head(orders), flag, ct)
         IN  IF row.kind = "None"
             THEN [rows |-> rows, raised |-> TRUE]
             ELSE WriteOrders(Tail(orders), flag, ct, Append(rows, row.f))

\* The body of "with open(csv_path, 'w')": the file starts empty; the
\* subscript data[order_type] raises when data is None or has no such key.
RECURSIVE WriteOrderTypes(_, _, _, _)
WriteOrderTypes(data, t, ct, rows) ==
    IF t > Len(order_types)
    THEN [rows |-> rows, raised |-> FALSE]
    ELSE IF data.kind # "book"
         THEN [rows |-> rows, raised |-> TRUE]
         ELSE LET w == WriteOrders(Orders(data, order_types[t].key),
                                   order_types[t].flag, ct, rows)
              IN  IF w.raised THEN w ELSE WriteOrderTypes(data, t + 1, ct, w.rows)

\* open(path, 'w') ... close: the file at path holds exactly rows
FileWrite(fs, path, rows) ==
    [q \in (DOMAIN fs) \cup {path} |-> IF q = path THEN rows ELSE fs[q]]

\* The loop over the products of the n-th snapshot, from its i-th key on.
\* st is the disk, whether an error escaped, and the history of the
\* files opened so far: [n, product, path, rows handed to the writer].
RECURSIVE WriteSnapshot(_, _, _, _, _, _)
WriteSnapshot(snapshot, n, i, ct, dir, st) ==
    IF i > Len(snapshot)
    THEN st
    ELSE LET csv_path == CsvPath(dir, snapshot[i].k, ct)
             w == WriteOrderTypes(snapshot[i].v, 1, ct, <<>>)
             st2 == [files |-> FileWrite(st.files, csv_path, w.rows),
                     raised |-> w.raised,
                     writes |-> Append(st.writes,
                                       [n |-> n, product |-> snapshot[i].k,
                                        path |-> csv_path, rows |-> w.rows,
                                        raised |-> w.raised])]
         IN  IF w.raised THEN st2 ELSE WriteSnapshot(snapshot, n, i + 1, ct, dir, st2)

\* The loop over self.order_book_data, from the n-th snapshot on
RECURSIVE WriteSnapshots(_, _, _, _, _)
WriteSnapshots(buf, n, ct, dir, st) ==
    IF n > Len(buf)
    THEN st
    ELSE LET st2 == WriteSnapshot(buf[n], n, 1, ct, dir, st)
         IN  IF st2.raised THEN st2 ELSE WriteSnapshots(buf, n + 1, ct, dir, st2)

\* write_order_book_csv with self.order_book_data = buf, self.current_time = ct
write_order_book_csv(buf, ct, dir, fs) ==
    WriteSnapshots(buf, 1, ct, dir, [files |-> fs, raised |-> FALSE, writes |-> <<>>])

\* ---------------------------------------------------------------------
\* run: the sleep that keeps the frequency
\* ---------------------------------------------------------------------
\* a fixed sleep, whatever the iteration took
SleepTime_Fixed(t, start) == FREQUENCY

\* elapsed_time = (time.time() - start_time) % frequency
\* sleep_time = frequency - elapsed_time
SleepTime(t, start) == FREQUENCY - ((t - start) % FREQUENCY)

\* ---------------------------------------------------------------------
\* _run_iteration: the test that triggers the flush
\* ---------------------------------------------------------------------
\* the flush one snapshot late
BufferFull_Late(buf) == Len(buf) > SCRAPES_PER_CSV

\* len(self.order_book_data) >= SCRAPES_PER_CSV
BufferFull(buf) == Len(buf) >= SCRAPES_PER_CSV

\* ---------------------------------------------------------------------
\* connection_retry(MAX_RETRIES, RATE_LIMIT): after a connection error the
\* call is made again while fewer than MAX_RETRIES retries have been made;
\* after that the error is raised to the caller
\* ---------------------------------------------------------------------
RetriesLeft(r) == r < MAX_RETRIES

\* ---------------------------------------------------------------------
\* State
\* ---------------------------------------------------------------------
VARIABLES
    pc,                  \* position: "init", "iter", "loop", "call", "sleep", "crashed"
    now,                 \* the clock
    products,            \* self.products
    order_book_data,     \* self.order_book_data
    current_time,        \* self.current_time
    files,               \* the CSV files on disk: path -> rows
    start_time,          \* run: start_time
    success,             \* run: success
    sleep_time,          \* run: sleep_time of this pass of the loop (0: not computed yet)
    order_book_data_all, \* _run_iteration: order_book_data_all
    idx,                 \* _run_iteration: position of the for loop in products
    retries,             \* connection_retry: retries made by the current call
    nFaults,             \* faults so far
    calls,               \* history: network calls of the current _get_order_book_data
    iterCalls,           \* history: network calls of the current iteration
    events,              \* history: fetch events of the current iteration
    ticks,               \* history: iterations started
    nOk,                 \* history: iterations that returned True
    nFlush,              \* history: calls of write_order_book_csv
    flushTick,           \* history: iteration of the last flush (0: none)
    prevFlushTick,       \* history: iteration of the flush before it (0: none)
    skipsSince,          \* history: iterations skipped since the last flush
    gapSkips,            \* history: iterations skipped between the last two flushes
    lastOutcome,         \* history: "none", "ok", "skipped", "raised"
    lastFlushed,         \* history: the last finished iteration called the flush
    lastWrites,          \* history: the files opened by the flush of the
                         \* iteration that has just finished, in order
    snapTimes,           \* history: current_time of the iteration that appended
                         \* each snapshot of the flush cycle
    startBuf,            \* history: order_book_data when the iteration began
    startFiles           \* history: files when the iteration began

progVars == <<products, order_book_data, current_time, files, start_time,
              success, sleep_time, order_book_data_all, idx, retries>>
callVars == <<calls, iterCalls, events>>
flushVars == <<nOk, nFlush, flushTick, prevFlushTick, skipsSince, gapSkips,
               lastOutcome, lastFlushed, lastWrites, snapTimes>>
startVars == <<ticks, startBuf, startFiles>>

vars == <<pc, now, nFaults, progVars, callVars, flushVars, startVars>>

Init ==
    /\ pc = "init"
    /\ now = StartClock
    /\ products = <<>>
    /\ order_book_data = <<>>
    /\ current_time = now
    /\ files = <<>>
    /\ start_time = now
    /\ success = TRUE
    /\ sleep_time = 0
    /\ order_book_data_all = EmptyDict
    /\ idx = 1
    /\ retries = 0
    /\ nFaults = 0
    /\ calls = 0
    /\ iterCalls = 0
    /\ events = <<>>
    /\ ticks = 0
    /\ nOk = 0
    /\ nFlush = 0
    /\ flushTick = 0
    /\ prevFlushTick = 0
    /\ skipsSince = 0
    /\ gapSkips = 0
    /\ lastOutcome = "none"
    /\ lastFlushed = FALSE
    /\ lastWrites = <<>>
    /\ snapTimes = <<>>
    /\ startBuf = <<>>
    /\ startFiles = <<>>

\* add_product(product), called before run
add_product(product) ==
    /\ pc = "init"
    /\ Len(products) < MaxProducts
    /\ products' = Append(products, product)
    /\ UNCHANGED <<pc, now, nFaults, order_book_data, current_time, files,
                   start_time, success, sleep_time, order_book_data_all, idx,
                   retries, callVars, flushVars, startVars>>

\* run, up to the loop
run ==
    /\ pc = "init"
    /\ start_time' = now
    /\ pc' = "iter"
    /\ UNCHANGED <<now, nFaults, products, order_book_data, current_time,
                   files, success, sleep_time, order_book_data_all, idx,
                   retries, callVars, flushVars, startVars>>

\* _run_iteration, up to the for loop
BeginIteration ==
    /\ pc = "iter"
    /\ ticks < MaxIter
    /\ current_time' = now
    /\ order_book_data_all' = EmptyDict
    /\ idx' = 1
    /\ pc' = "loop"
    /\ calls' = 0
    /\ iterCalls' = 0
    /\ events' = <<>>
    /\ ticks' = ticks + 1
    /\ startBuf' = order_book_data
    /\ startFiles' = files
    /\ sleep_time' = 0
    /\ UNCHANGED <<now, nFaults, products, order_book_data, files, start_time,
                   success, retries, flushVars>>

\* the for loop takes the next product and calls _get_order_book_data
StartFetch ==
    /\ pc = "loop"
    /\ idx <= Len(products)
    /\ retries' = 0
    /\ calls' = 0
    /\ events' = Append(events, [e |-> "start", i |-> idx, product |-> products[idx]])
    /\ pc' = "call"
    /\ UNCHANGED <<now, nFaults, products, order_book_data, current_time,
                   files, start_time, success, sleep_time, order_book_data_all,
                   idx, iterCalls, flushVars, startVars>>

\* the time a network call takes
CallDurations == {FastCall} \cup (IF nFaults < MaxFaults THEN {SlowCall} ELSE {})
SlowFault(d) == IF d = SlowCall THEN 1 ELSE 0
\* the first connection error of a fetch
ErrorFault == IF retries = 0 THEN 1 ELSE 0

\* what the client can return for product p
Responses(p) ==
    GoodResponses(p, current_time)
        \cup (IF nFaults < MaxFaults THEN BadResponses(p, current_time) ELSE {})
BadFault(p, data) == IF data \in GoodResponses(p, current_time) THEN 0 ELSE 1

\* a value already stored under the product is kept
StoreResult_KeepFirst(all, product, data) ==
    IF DictHas(all, product) THEN all ELSE DictSet(all, product, data)

\* the value the network call returned is packed in a one-element tuple
\* (the trailing comma) and its element 0 is stored under the product;
\* the subscript of a tuple cannot raise TypeError, so the "return False"
\* of the second try is never taken.
StoreResult(all, product, data) ==
    LET order_book_data_t == <<data>>
    IN  DictSet(all, product, order_book_data_t[1])

\* the network call returns a value
CallReturns(data, d) ==
    /\ pc = "call"
    /\ now' = now + d
    /\ nFaults' = nFaults + SlowFault(d) + BadFault(products[idx], data)
    /\ nFaults' <= MaxFaults
    /\ order_book_data_all' = StoreResult(order_book_data_all, products[idx], data)
    /\ idx' = idx + 1
    /\ pc' = "loop"
    /\ calls' = calls + 1
    /\ iterCalls' = iterCalls + 1
    /\ events' = Append(events, [e |-> "return", i |-> idx, product |-> products[idx],
                                  data |-> data])
    /\ UNCHANGED <<products, order_book_data, current_time, files, start_time,
                   success, sleep_time, retries, flushVars, startVars>>

\* connection_retry: the call raised and retries are left
CallFailsRetry(d) ==
    /\ pc = "call"
    /\ RetriesLeft(retries)
    /\ now' = now + d
    /\ nFaults' = nFaults + SlowFault(d) + ErrorFault
    /\ nFaults' <= MaxFaults
    /\ retries' = retries + 1
    /\ calls' = calls + 1
    /\ iterCalls' = iterCalls + 1
    /\ UNCHANGED <<pc, products, order_book_data, current_time, files,
                   start_time, success, sleep_time, order_book_data_all, idx,
                   events, flushVars, startVars>>

\* the except clause returns False but keeps what was fetched so far
CallFailsRaise_KeepsPartial(d) ==
    /\ pc = "call"
    /\ ~RetriesLeft(retries)
    /\ now' = now + d
    /\ nFaults' = nFaults + SlowFault(d) + ErrorFault
    /\ nFaults' <= MaxFaults
    /\ calls' = calls + 1
    /\ iterCalls' = iterCalls + 1
    /\ success' = FALSE
    /\ pc' = "sleep"
    /\ events' = Append(events, [e |-> "raise", i |-> idx, product |-> products[idx]])
    /\ skipsSince' = skipsSince + 1
    /\ lastOutcome' = "skipped"
    /\ lastFlushed' = FALSE
    /\ order_book_data' = Append(order_book_data, order_book_data_all)
    /\ snapTimes' = Append(snapTimes, current_time)
    /\ UNCHANGED <<products, current_time, files, start_time,
                   sleep_time, order_book_data_all, idx, retries, nOk, nFlush,
                   flushTick, prevFlushTick, gapSkips, lastWrites, startVars>>

\* the except clause does not leave the loop: the same product is fetched again
CallFailsRaise_SameProduct(d) ==
    /\ pc = "call"
    /\ ~RetriesLeft(retries)
    /\ now' = now + d
    /\ nFaults' = nFaults + SlowFault(d) + ErrorFault
    /\ nFaults' <= MaxFaults
    /\ calls' = calls + 1
    /\ iterCalls' = iterCalls + 1
    /\ pc' = "loop"
    /\ events' = Append(events, [e |-> "raise", i |-> idx, product |-> products[idx]])
    /\ UNCHANGED <<products, order_book_data, current_time, files, start_time,
                   success, sleep_time, order_book_data_all, idx, retries,
                   flushVars, startVars>>

\* the except clause goes on with the next product
CallFailsRaise_NextProduct(d) ==
    /\ pc = "call"
    /\ ~RetriesLeft(retries)
    /\ now' = now + d
    /\ nFaults' = nFaults + SlowFault(d) + ErrorFault
    /\ nFaults' <= MaxFaults
    /\ calls' = calls + 1
    /\ iterCalls' = iterCalls + 1
    /\ pc' = "loop"
    /\ idx' = idx + 1
    /\ events' = Append(events, [e |-> "raise", i |-> idx, product |-> products[idx]])
    /\ UNCHANGED <<products, order_book_data, current_time, files, start_time,
                   success, sleep_time, order_book_data_all, retries,
                   flushVars, startVars>>

\* connection_retry: the call raised and no retry is left: the error
\* reaches _run_iteration, which returns False; run logs the warning
CallFailsRaise(d) ==
    /\ pc = "call"
    /\ ~RetriesLeft(retries)
    /\ now' = now + d
    /\ nFaults' = nFaults + SlowFault(d) + ErrorFault
    /\ nFaults' <= MaxFaults
    /\ calls' = calls + 1
    /\ iterCalls' = iterCalls + 1
    /\ success' = FALSE
    /\ pc' = "sleep"
    /\ events' = Append(events, [e |-> "raise", i |-> idx, product |-> products[idx]])
    /\ skipsSince' = skipsSince + 1
    /\ lastOutcome' = "skipped"
    /\ lastFlushed' = FALSE
    /\ UNCHANGED <<products, order_book_data, current_time, files, start_time,
                   sleep_time, order_book_data_all, idx, retries, nOk, nFlush,
                   flushTick, prevFlushTick, gapSkips, lastWrites, snapTimes,
                   startVars>>

\* _run_iteration after the for loop: append, flush when the buffer is full
FinishIteration ==
    /\ pc = "loop"
    /\ idx > Len(products)
    /\ LET buf == Append(order_book_data, order_book_data_all)
           full == BufferFull(buf)
           w == write_order_book_csv(buf, current_time, DEFAULT_OUTPUT_DIR, files)
       IN  /\ lastFlushed' = full
           /\ snapTimes' = Append(snapTimes, current_time)
           /\ IF full
              THEN /\ files' = w.files
                   /\ lastWrites' = w.writes
                   /\ nFlush' = nFlush + 1
                   /\ flushTick' = ticks
                   /\ prevFlushTick' = flushTick
                   /\ gapSkips' = skipsSince
                   /\ skipsSince' = 0
              ELSE UNCHANGED <<files, lastWrites, nFlush, flushTick, prevFlushTick,
                               gapSkips, skipsSince>>
           /\ IF full /\ w.raised
              THEN /\ order_book_data' = buf
                   /\ pc' = "crashed"
                   /\ lastOutcome' = "raised"
                   /\ UNCHANGED <<success, nOk>>
              ELSE /\ order_book_data' = IF full THEN <<>> ELSE buf
                   /\ pc' = "sleep"
                   /\ success' = TRUE
                   /\ lastOutcome' = "ok"
                   /\ nOk' = nOk + 1
    /\ UNCHANGED <<now, nFaults, products, current_time, start_time,
                   sleep_time, order_book_data_all, idx, retries, callVars,
                   startVars>>

\* run: the sleep after an iteration
Sleep ==
    /\ pc = "sleep"
    /\ sleep_time' = SleepTime(now, start_time)
    /\ now' = now + sleep_time'
    /\ pc' = "iter"
    /\ calls' = 0
    /\ iterCalls' = 0
    /\ events' = <<>>
    /\ lastWrites' = <<>>
    /\ snapTimes' = IF lastFlushed THEN <<>> ELSE snapTimes
    /\ UNCHANGED <<nFaults, products, order_book_data, current_time, files,
                   start_time, success, order_book_data_all, idx, retries,
                   nOk, nFlush, flushTick, prevFlushTick, skipsSince, gapSkips,
                   lastOutcome, lastFlushed, startVars>>

Next ==
    \/ \E p \in ProductNames : add_product(p)
    \/ run
    \/ BeginIteration
    \/ StartFetch
    \/ /\ pc = "call"
       /\ \E d \in CallDurations : \E data \in Responses(products[idx]) : CallReturns(data, d)
    \/ \E d \in CallDurations : CallFailsRetry(d)
    \/ \E d \in CallDurations : CallFailsRaise(d)
    \/ FinishIteration
    \/ Sleep

Spec == Init /\ [][Next]_vars

\* ---------------------------------------------------------------------
\* Properties
\* ---------------------------------------------------------------------
\* an iteration has just finished (run is about to sleep, or has died)
IterationDone == pc \in {"sleep", "crashed"}
\* the iteration that has just finished called write_order_book_csv
Flushed == IterationDone /\ lastFlushed
\* ... and the call returned
FlushDone == pc = "sleep" /\ lastOutcome = "ok" /\ lastFlushed
\* the buffer that flush was handed, and the iteration time it ran at
LastFlush == Append(startBuf, order_book_data_all)
flushTime == current_time

\* the file holds a row of order type flag with the three fields of entry
RowPresent(rows, flag, entry) ==
    \E r \in 1..Len(rows) :
        /\ Len(rows[r]) = 5
        /\ rows[r][2] = flag
        /\ SubSeq(rows[r], 3, 5) = entry.f

\* the file at path exists and holds a row for every list entry of data
HoldsRowsOf(path, data) ==
    /\ path \in DOMAIN files
    /\ \A t \in 1..Len(order_types) :
         LET orders == Orders(data, order_types[t].key)
         IN  \A j \in 1..Len(orders) :
                orders[j].kind = "list" =>
                    RowPresent(files[path], order_types[t].flag, orders[j])

\* C1: after a flush, the CSV file of every tracked product holds the bid
\* and ask rows of every snapshot that was in order_book_data when the
\* flush was triggered (all SCRAPES_PER_CSV of them)
C1_FlushCompleteness ==
    FlushDone =>
        \A n \in 1..Len(LastFlush) : \A i \in 1..Len(LastFlush[n]) :
            HoldsRowsOf(CsvPath(DEFAULT_OUTPUT_DIR, LastFlush[n][i].k, flushTime),
                        LastFlush[n][i].v)

\* C2 as stated: a flush happens on exactly every SCRAPES_PER_CSV-th
\* iteration of the run loop, whether iterations succeed or fail
C2_FlushEveryFifthTick ==
    IterationDone => (lastFlushed <=> ticks % SCRAPES_PER_CSV = 0)

\* C2 as amended: a flush happens on every SCRAPES_PER_CSV-th successful
\* iteration: the number of iterations from one flush (or from the start)
\* to the next is SCRAPES_PER_CSV plus the number of iterations skipped in
\* between, and no flush is overdue
C2_FlushCadence ==
    /\ nFlush >= 1 => flushTick - prevFlushTick = SCRAPES_PER_CSV + gapSkips
    /\ IterationDone => ticks - flushTick - skipsSince < SCRAPES_PER_CSV
    /\ IterationDone /\ lastOutcome = "skipped" => ~lastFlushed

\* two flushes with a skipped iteration between them
C2_Witness == nFlush >= 2 /\ gapSkips >= 1 /\ pc = "sleep"

\* C3: when the fetch of a product fails, _run_iteration returns False,
\* order_book_data is what it was before the iteration, and no CSV file
\* has been written
C3_SkipOnFailure ==
    (pc = "sleep" /\ lastOutcome = "skipped") =>
        /\ success = FALSE
        /\ order_book_data = startBuf
        /\ files = startFiles
        /\ ~lastFlushed

\* the second product failed after the first was fetched, with snapshots buffered
C3_Witness ==
    /\ pc = "sleep"
    /\ lastOutcome = "skipped"
    /\ Len(order_book_data_all) >= 1
    /\ Len(order_book_data) >= 1

\* C4: one call of _get_order_book_data makes at most MAX_RETRIES retries
\* (1 + MAX_RETRIES network calls) and raises only when they are used up;
\* an iteration makes at most len(products) * (1 + MAX_RETRIES) network calls
C4_BoundedRetry ==
    /\ retries <= MAX_RETRIES
    /\ calls <= 1 + MAX_RETRIES
    /\ iterCalls <= Len(products) * (1 + MAX_RETRIES)
    /\ (pc = "sleep" /\ lastOutcome = "skipped") => calls = 1 + MAX_RETRIES

\* the endpoint failed 1 + MAX_RETRIES times for the second product
C4_Witness ==
    /\ pc = "sleep"
    /\ lastOutcome = "skipped"
    /\ calls = 1 + MAX_RETRIES
    /\ iterCalls > calls

Range(seq) == {seq[i] : i \in 1..Len(seq)}

\* the files on disk named after the iteration time t
FilesOfFlush(t) == {path \in DOMAIN files : path[3] = TimestampStr(t)}

\* every tracked product has its file of the last flush, there is no other
\* file of that flush, and the files that were there before are untouched
OneFilePerProduct ==
    /\ \A i \in 1..Len(products) :
          CsvPath(DEFAULT_OUTPUT_DIR, products[i], flushTime) \in DOMAIN files
    /\ Cardinality(FilesOfFlush(flushTime)) = Cardinality(Range(products))
    /\ \A p \in Range(products) : \A q \in Range(products) :
          p # q => CsvPath(DEFAULT_OUTPUT_DIR, p, flushTime)
                       # CsvPath(DEFAULT_OUTPUT_DIR, q, flushTime)
    /\ \A path \in DOMAIN startFiles :
          path \in DOMAIN files /\ files[path] = startFiles[path]

\* C5: each flush leaves exactly one CSV file per tracked product, at
\* csv_directory/<product>/<timestamp of the flushing iteration>; files of
\* different products have different paths, and no file of an earlier
\* flush is written to
C5_OneFilePerProduct == Flushed => OneFilePerProduct

\* C5 restricted to the flushes that return: it holds for them
C5_WhenFlushReturns == FlushDone => OneFilePerProduct

\* a second flush that returned, with two products
C5_WhenFlushReturnsWitness ==
    FlushDone /\ nFlush >= 2 /\ Cardinality(Range(products)) = 2

\* the entries of a book in the order the flush takes them, and their flags
EntriesOf(data) == data.bids \o data.asks
FlagOf(data, r) == IF r <= Len(data.bids) THEN "b" ELSE "a"

\* the data the k-th file opened by the last flush was written from
DataOfWrite(k) == DictGet(LastFlush[lastWrites[k].n], lastWrites[k].product)

\* C6: every row a flush writes has the five columns [timestamp,
\* order_type, price, size, order_count]: the three fields of the fetched
\* entry in their order, 'b' for an entry of 'bids' and 'a' for an entry of
\* 'asks', and the bid rows of a snapshot before its ask rows
C6_RowFormat ==
    Flushed =>
    /\ \A k \in 1..Len(lastWrites) :
         LET data == DataOfWrite(k)
             rows == lastWrites[k].rows
         IN  \A r \in 1..Len(rows) :
                /\ Len(rows[r]) = 5
                /\ rows[r][1][1] = "iso"
                /\ r <= Len(EntriesOf(data))
                /\ rows[r][2] = FlagOf(data, r)
                /\ SubSeq(rows[r], 3, 5) = EntriesOf(data)[r].f
    /\ \A path \in DOMAIN files :
         \A r \in 1..Len(files[path]) :
            /\ Len(files[path][r]) = 5
            /\ files[path][r][2] \in {"b", "a"}
            /\ (r > 1 /\ files[path][r][2] = "b") => files[path][r - 1][2] = "b"

\* a flush wrote a file with bid rows and ask rows
C6_Witness ==
    /\ FlushDone
    /\ \E k \in 1..Len(lastWrites) :
         LET rows == lastWrites[k].rows
         IN  /\ Len(rows) >= 3
             /\ rows[1][2] = "b"
             /\ rows[Len(rows)][2] = "a"
             /\ lastWrites[k].path \in DOMAIN files
             /\ files[lastWrites[k].path] = rows

\* C7: the products are fetched one at a time in the order of add_product:
\* the fetch of product i+1 starts only after the fetch of product i has
\* returned, and no fetch follows one that failed
C7_SequentialPolling ==
    /\ \A j \in 1..Len(events) :
         LET i == (j + 1) \div 2
         IN  /\ i <= Len(products)
             /\ events[j].i = i
             /\ events[j].product = products[i]
             /\ j % 2 = 1 => events[j].e = "start"
             /\ j % 2 = 0 => events[j].e \in {"return", "raise"}
             /\ events[j].e = "raise" => j = Len(events)
    /\ pc = "call" <=> Len(events) % 2 = 1

\* the first of two different products failed and the iteration is over
C7_Witness ==
    /\ pc = "sleep"
    /\ Len(products) = 2
    /\ products[1] # products[2]
    /\ Len(events) = 2
    /\ events[2].e = "raise"

\* the fetch of the second product has started after the first returned
C7_WitnessSecond ==
    /\ pc = "call"
    /\ Len(events) = 3
    /\ events[2].e = "return"
    /\ events[3].product # events[1].product

\* C8: the sleep_time run computes is in (0, FREQUENCY], and every
\* iteration starts a multiple of FREQUENCY after start_time, however long
\* the iterations before it took
C8_TickSchedule ==
    /\ (pc = "iter" /\ ticks >= 1) =>
          /\ 0 < sleep_time
          /\ sleep_time <= FREQUENCY
          /\ (now - start_time) % FREQUENCY = 0
    /\ ticks >= 1 => (current_time - start_time) % FREQUENCY = 0

\* an iteration took longer than FREQUENCY and run has slept after it
C8_Witness ==
    /\ pc = "iter"
    /\ ticks >= 1
    /\ now - current_time > FREQUENCY
    /\ sleep_time < FREQUENCY
    /\ start_time # 0

\* C9: a fetched value that is no order book (None, an error object) makes
\* _run_iteration return False and is never stored in order_book_data
C9_UnusableResponseSkipped ==
    /\ \A n \in 1..Len(order_book_data) : \A i \in 1..Len(order_book_data[n]) :
          order_book_data[n][i].v.kind = "book"
    /\ (IterationDone /\ \E i \in 1..Len(order_book_data_all) :
                            order_book_data_all[i].v.kind # "book")
          => (lastOutcome = "skipped" /\ success = FALSE)

\* C10: an entry of the wrong type is skipped by the flush: no error is
\* raised, and the other entries of the snapshot are written
C10_MalformedRowSkipped ==
    Flushed =>
        \A k \in 1..Len(lastWrites) :
            LET data == DataOfWrite(k)
            IN  data.kind = "book" =>
                  /\ ~lastWrites[k].raised
                  /\ \A r \in 1..Len(EntriesOf(data)) :
                        EntriesOf(data)[r].kind = "list" =>
                            RowPresent(lastWrites[k].rows, FlagOf(data, r),
                                       EntriesOf(data)[r])

\* the run loop is between two iterations (or before the first)
BetweenIterations == pc \in {"init", "iter", "sleep"}

FlushCount ==
    /\ nFlush = nOk \div SCRAPES_PER_CSV
    /\ IterationDone =>
          (lastFlushed <=> (lastOutcome = "ok" /\ nOk % SCRAPES_PER_CSV = 0))
    /\ (IterationDone /\ lastOutcome = "skipped") =>
          (~lastFlushed /\ order_book_data = startBuf)

\* C12: after k successful iterations exactly floor(k / SCRAPES_PER_CSV)
\* flushes have occurred; a flush occurs in an iteration iff the iteration
\* is successful and is the SCRAPES_PER_CSV-th successful one since the
\* flush before; a failed iteration neither flushes nor resets the count
C12_FlushCount == FlushCount

\* C12 restricted to the iterations that return: it holds for them
C12_WhileRunning == pc # "crashed" => FlushCount

\* two flushes have returned and an iteration was skipped on the way
C12_WhileRunningWitness == pc = "sleep" /\ nFlush = 2 /\ nOk = 10 /\ ticks = 11

\* the rows handed to the writer by the flush of the iteration
\* (n: the snapshot a row was written from, date: its first column)
RowsOfFlush ==
    UNION {{[n |-> lastWrites[k].n, date |-> lastWrites[k].rows[r][1]] :
               r \in 1..Len(lastWrites[k].rows)} : k \in 1..Len(lastWrites)}
DatesOfFlush == {x.date : x \in RowsOfFlush}

\* C13: every row handed to the CSV writer carries the time of the
\* iteration that fetched its snapshot, so that the rows of the
\* SCRAPES_PER_CSV snapshots of a flush carry as many different times
C13_RowTimestamp ==
    Flushed =>
    /\ \A x \in RowsOfFlush : x.date = IsoFormat(snapTimes[x.n])
    /\ FlushDone => Cardinality(DatesOfFlush) = SCRAPES_PER_CSV

\* what the code does: every row of a flush carries the time of the
\* iteration that flushes
C13_FlushTimeInRows ==
    Flushed => \A x \in RowsOfFlush : x.date = IsoFormat(current_time)

\* a flush returned after writing rows of SCRAPES_PER_CSV snapshots fetched
\* at different times
C13_FlushTimeInRowsWitness ==
    /\ FlushDone
    /\ {x.n : x \in RowsOfFlush} = 1..SCRAPES_PER_CSV
    /\ Cardinality(Range(snapTimes)) = SCRAPES_PER_CSV
    /\ Cardinality(DatesOfFlush) = 1

\* run is inside its loop (or has not been called yet): no exception has
\* left _run_iteration and ended it
Running == pc \in {"init", "iter", "loop", "call", "sleep"}

\* C14: the polling loop keeps running: whatever the fetches return and
\* however the flush goes, nothing brings the loop to a stop, so that
\* another iteration can always be started
C14_LoopKeepsRunning == Running

\* what the code does: only a flush that raises stops the loop; an
\* iteration whose fetch failed is followed by the sleep
C14_OnlyFlushStops ==
    /\ ~Running => (lastFlushed /\ lastOutcome = "raised")
    /\ (IterationDone /\ lastOutcome = "skipped") => pc = "sleep"

\* an iteration was started after one that was skipped
C14_OnlyFlushStopsWitness ==
    pc = "loop" /\ skipsSince = 1 /\ ticks >= 2

\* the fetches of the iteration that returned a value, in order
Returns == SelectSeq(events, LAMBDA ev : ev.e = "return")
\* the value returned by the iteration's (last) fetch of product p
ReturnedFor(p) ==
    Returns[CHOOSE j \in 1..Len(Returns) :
               /\ Returns[j].product = p
               /\ \A m \in (j + 1)..Len(Returns) : Returns[m].product # p].data

\* one entry per distinct tracked product
Complete(snapshot) ==
    /\ DictKeys(snapshot) = Range(products)
    /\ Len(snapshot) = Cardinality(Range(products))

\* C15: every snapshot in order_book_data has exactly one entry per
\* distinct product added before run, the entry being the value the
\* iteration's fetch of that product returned; an iteration buffers one
\* such snapshot or nothing
C15_SnapshotCompleteness ==
    /\ \A n \in 1..Len(order_book_data) : Complete(order_book_data[n])
    /\ (IterationDone /\ lastOutcome \in {"ok", "raised"}) =>
          /\ Complete(LastFlush[Len(LastFlush)])
          /\ \A p \in Range(products) :
                DictGet(LastFlush[Len(LastFlush)], p) = ReturnedFor(p)
          /\ ~lastFlushed => order_book_data = LastFlush
    /\ (IterationDone /\ lastOutcome = "skipped") => order_book_data = startBuf

\* a snapshot of two products is buffered by an iteration that follows a
\* skipped one, which has buffered nothing
C15_Witness ==
    /\ pc = "sleep"
    /\ lastOutcome = "ok"
    /\ ~lastFlushed
    /\ skipsSince >= 1
    /\ Cardinality(Range(products)) = 2
    /\ Len(order_book_data) >= 1
    /\ Len(order_book_data) < ticks

====
